---- MODULE Spec2Model ----
(***************************************************************************)
(* Model of the CNI plugins of this repository.                            *)
(*                                                                         *)
(*   Spec       plugins/main/host-device: cmdAdd / cmdDel, moveLinkIn,     *)
(*              moveLinkOut and getLink, run step by step against a small  *)
(*              kernel (links with a namespace, a name, an alias and an    *)
(*              administrative state) and an IPAM delegate.                *)
(*   SpecLink   plugins/main/host-device: getLink on its own, over every   *)
(*              selector list of up to MaxSel entries and a kernel of      *)
(*              NumLive links.                                             *)
(*   SpecAlloc  plugins/main/multicni: getifname and the closure it        *)
(*              returns, over every base name up to MaxLen characters,     *)
(*              two allocators on the same base name side by side.         *)
(*   SpecMulti  plugins/main/multicni: cmdAdd / cmdDel with delegateAdd /  *)
(*              delegateDel, over static plugin lists, default names and   *)
(*              pod annotations.                                           *)
(*   SpecDhcp   plugins/ipam/vdn-dhcp: cmdAdd / cmdDel going through the   *)
(*              configured servers with RestClient.Put / Delete, over      *)
(*              every list of up to MaxServers servers.                    *)
(*                                                                         *)
(* The specifications share       the variables; each holds the others'    *)
(* variables at their initial values.                                      *)
(*                                                                         *)
(* Every call that leaves the process (netlink, IPAM exec, ns handling)    *)
(* is one step; its outcome is drawn from BOOLEAN where the environment    *)
(* can make it fail.                                                       *)
(***************************************************************************)
EXTENDS Integers, Sequences, FiniteSets, TLC

\* ------------------------------------------------------------------ bounds
NumLinks == 2
MaxCmds == 2

\* ------------------------------------------------------------ the kernel
NoLink == 0
Nil == "nil"

\* The name link l has when the host boots.
DevName(l) == <<"ens1", "ens2", "ens3", "ens4">>[l]

\* CNI_IFNAME values handed to the plugin; "ens1" is also a host name.
IfNames == {"eth0", "ens1"}

VARIABLES
    links,      \* kernel: link -> [ns, name, alias, up]
    curNs,      \* network namespace of the executing thread
    nsStack,    \* namespaces saved by the enclosing containerNs.Do calls
    pc,         \* position of the running command
    frame,      \* locals of the running command
    lease,      \* IPAM: an address is allocated for the container
    trace,      \* external calls of the running command, in order
    links0,     \* kernel state when the running command started
    attached,   \* the last successful moveLinkIn, until another Add or a detach
    ncmds,      \* commands started so far
    \* multicni's interface-name allocator (SpecAlloc)
    ifname,     \* the base name given to getifname
    podif,      \* allocator -> the variables its closure captured
    produced,   \* allocator -> what its calls returned, in order
    \* multicni's dispatcher (SpecMulti)
    minput,     \* what every invocation is given: IfName, NetConf, annotations
    mpc,        \* position of the running command
    mframe,     \* locals of the running command
    environ,    \* the process environment's CNI_IFNAME
    invoked,    \* delegate invocations so far, in order
    stdout,     \* result documents printed so far: [cmd, plugin]
    inflight,   \* delegate invocations that have not returned
    ran,        \* the commands started so far, and what each returned
    \* the vdn-dhcp IPAM plugin (SpecDhcp)
    dinput,     \* the command, and what each configured server does with a request
    dpc,        \* position of the running command
    dframe,     \* locals of the running command
    contacted,  \* the servers a request was sent to, in order
    dstdout     \* the servers whose answer was printed as the result

\* The links the kernel knows, by index.
Links == DOMAIN links

hdVars == <<links, curNs, nsStack, pc, frame, lease, trace, links0, attached, ncmds>>
allocVars == <<ifname, podif, produced>>
multiVars == <<minput, mpc, mframe, environ, invoked, stdout, inflight, ran>>
dhcpVars == <<dinput, dpc, dframe, contacted, dstdout>>
vars == <<hdVars, allocVars, multiVars, dhcpVars>>

\* What the host-device plugin never touches.
others == <<allocVars, multiVars, dhcpVars>>

NoAttach == [link |-> NoLink, orig |-> "", ifName |-> ""]

\* netlink.LinkByName in namespace ns.
ByName(ns, n) ==
    IF \E l \in Links : links[l].ns = ns /\ links[l].name = n
    THEN CHOOSE l \in Links : links[l].ns = ns /\ links[l].name = n
    ELSE NoLink

LinkByName(n) == ByName(curNs, n)

\* netlink.LinkList in the thread's namespace, by index.
LinkList == SelectSeq([i \in 1..Len(links) |-> i], LAMBDA l : links[l].ns = curNs)

\* A netlink request addresses a link of the thread's namespace.
Reachable(l) == l # NoLink /\ links[l].ns = curNs

\* RTM_SETLINK with IFLA_IFNAME: the kernel refuses an empty name (the
\* attribute fails validation), a name in use in the namespace, and a
\* rename of a link that is up; a rename to the current name succeeds.
CanSetName(l, n) ==
    /\ Reachable(l)
    /\ n # ""
    /\ ~links[l].up
    /\ \A m \in Links \ {l} : ~(links[m].ns = links[l].ns /\ links[m].name = n)

\* RTM_SETLINK with IFLA_NET_NS_FD: refused when the name is in use in the
\* target namespace; a move to the namespace the link is in is a no-op.
CanSetNs(l, ns) ==
    /\ Reachable(l)
    /\ \/ links[l].ns = ns
       \/ \A m \in Links \ {l} : ~(links[m].ns = ns /\ links[m].name = links[l].name)

LinkSetDownNoop(l) == links
LinkSetDown(l) == [links EXCEPT ![l].up = FALSE]
LinkSetAliasNoop(l, a) == links
LinkSetAlias(l, a) == [links EXCEPT ![l].alias = a]
LinkSetName(l, n) == [links EXCEPT ![l].name = n]
LinkSetNsFd(l, ns) == [links EXCEPT ![l].ns = ns, ![l].up = FALSE]

\* ------------------------------------------------------------- getLink
\* net.ParseMAC: the hardware address (0: a parse error). Two spellings of
\* one address parse to the same bytes.
ParseMAC(s) ==
    CASE s = "aa:00:00:00:00:01" -> 1
      [] s = "AA:00:00:00:00:01" -> 1
      [] s = "aa:00:00:00:00:02" -> 2
      [] s = "aa-00-00-00-00-03" -> 3
      [] OTHER -> 0

HardwareAddr(l) == l

\* A kernel path is its list of elements; an absolute path starts with "/".
IsAbs(p) == Len(p) > 0 /\ p[1] = "/"
\* strings.HasPrefix(kernelpath, "/sys/devices/")
UnderSysDevices(p) == Len(p) >= 4 /\ p[1] = "/" /\ p[2] = "sys" /\ p[3] = "devices"

PciPath(l) == <<"/", "sys", "devices", "pci0", DevName(l)>>

\* ioutil.ReadDir(kernelpath/net): the names of the device's interfaces
\* that sysfs shows in the thread's namespace (err when there is no such
\* directory).
ReadDir(p) ==
    IF \E l \in Links : p = PciPath(l)
    THEN LET l == CHOOSE k \in Links : p = PciPath(k)
         IN  [err |-> FALSE,
              files |-> IF links[l].ns = curNs THEN <<links[l].name>> ELSE <<>>]
    ELSE [err |-> TRUE, files |-> <<>>]

RECURSIVE FirstByName(_)
FirstByName(devices) ==
    IF devices = <<>> THEN NoLink
    ELSE IF LinkByName(Head(devices)) # NoLink THEN LinkByName(Head(devices))
    ELSE FirstByName(Tail(devices))

MatchHw(hw, ll) ==
    LET m == SelectSeq(ll, LAMBDA l : HardwareAddr(l) = hw)
    IN  IF m = <<>> THEN NoLink ELSE Head(m)

\* A scan that gives up after the first address.
FirstByHwHeadOnly(hwaddrs, ll) ==
    IF hwaddrs = <<>> \/ ParseMAC(Head(hwaddrs)) = 0 THEN NoLink
    ELSE MatchHw(ParseMAC(Head(hwaddrs)), ll)

RECURSIVE FirstByHw(_, _)
FirstByHw(hwaddrs, ll) ==
    IF hwaddrs = <<>> THEN NoLink
    ELSE IF ParseMAC(Head(hwaddrs)) # 0 /\ MatchHw(ParseMAC(Head(hwaddrs)), ll) # NoLink
         THEN MatchHw(ParseMAC(Head(hwaddrs)), ll)
    ELSE FirstByHw(Tail(hwaddrs), ll)

RECURSIVE FirstByFile(_, _)
FirstByFile(files, ll) ==
    IF files = <<>> THEN NoLink
    ELSE LET m == SelectSeq(ll, LAMBDA l : links[l].name = Head(files))
         IN  IF m # <<>> THEN Head(m) ELSE FirstByFile(Tail(files), ll)

\* A scan that gives up at a kernel path it does not accept.
RECURSIVE FirstByPathAbort(_, _)
FirstByPathAbort(kernelpaths, ll) ==
    IF kernelpaths = <<>> THEN NoLink
    ELSE LET p == Head(kernelpaths) IN
         IF ~IsAbs(p) \/ ~UnderSysDevices(p) THEN NoLink
         ELSE LET hit == IF ReadDir(p).err THEN NoLink
                         ELSE FirstByFile(ReadDir(p).files, ll)
              IN  IF hit # NoLink THEN hit ELSE FirstByPathAbort(Tail(kernelpaths), ll)

RECURSIVE FirstByPath(_, _)
FirstByPath(kernelpaths, ll) ==
    IF kernelpaths = <<>> THEN NoLink
    ELSE LET p == Head(kernelpaths)
             hit == IF ~IsAbs(p) \/ ~UnderSysDevices(p) THEN NoLink
                    ELSE IF ReadDir(p).err THEN NoLink
                    ELSE FirstByFile(ReadDir(p).files, ll)
         IN  IF hit # NoLink THEN hit ELSE FirstByPath(Tail(kernelpaths), ll)

\* A getLink that tries the hardware addresses before the names.
getLinkHwFirst(devices, hwaddrs, kernelpaths) ==
    IF FirstByHw(hwaddrs, LinkList) # NoLink THEN FirstByHw(hwaddrs, LinkList)
    ELSE IF FirstByName(devices) # NoLink THEN FirstByName(devices)
    ELSE FirstByPath(kernelpaths, LinkList)

getLink(devices, hwaddrs, kernelpaths) ==
    IF FirstByName(devices) # NoLink THEN FirstByName(devices)
    ELSE IF FirstByHw(hwaddrs, LinkList) # NoLink THEN FirstByHw(hwaddrs, LinkList)
    ELSE FirstByPath(kernelpaths, LinkList)

\* A loadConf that accepts every configuration.
loadConfLax(c) == Nil

\* loadConf: a configuration with no selector at all is refused.
loadConf(c) ==
    IF Len(c.devices) = 0 /\ Len(c.hwaddrs) = 0 /\ Len(c.kernelpaths) = 0
    THEN "E_conf" ELSE Nil

\* The configurations fed to the plugin.
Confs ==
    { [devices |-> <<>>, hwaddrs |-> <<>>, kernelpaths |-> <<>>],
      [devices |-> <<"ens1">>, hwaddrs |-> <<>>, kernelpaths |-> <<>>],
      [devices |-> <<"ens9">>, hwaddrs |-> <<"aa:00:00:00:00:02">>, kernelpaths |-> <<>>],
      [devices |-> <<>>, hwaddrs |-> <<"zz">>, kernelpaths |-> <<PciPath(1)>>] }

\* ------------------------------------------------------------ the frame
NewFrame(c, n, conf) ==
    [cmd |-> c, ifName |-> n, cfg |-> conf,
     hostDev |-> NoLink, hostName |-> "", contDev |-> NoLink,
     dev |-> NoLink, devAlias |-> "", defaultNs |-> "",
     err |-> Nil, outErr |-> Nil, ret |-> Nil, failedAt |-> "",
     defers |-> <<>>, outRet |-> "", outAt |-> "", rt |-> NoAttach, faults |-> 0]

IdleFrame == NewFrame("none", "", [devices |-> <<>>, hwaddrs |-> <<>>, kernelpaths |-> <<>>])

Event(op, ok) == [op |-> op, ok |-> ok]
Log(op, ok) == Append(trace, Event(op, ok))

\* `return e` of cmdAdd / cmdDel at step `at`: the deferred calls run next.
Return(f, e, at) == [f EXCEPT !.ret = e, !.failedAt = at]

\* A failed call: the error lands in the caller's err. faults counts the
\* failures the environment injected (ok = FALSE), not the kernel's refusals.
Fault(f, ok) == [f EXCEPT !.faults = IF ok THEN @ ELSE @ + 1]
Fail(f, ok, e, at) == [Fault(f, ok) EXCEPT !.err = e, !.failedAt = at]
OutFail(f, ok, e, at) == [Fault(f, ok) EXCEPT !.outErr = e, !.outAt = at]

\* -------------------------------------------------- containerNs.Do(...)
\* The body each Do runs, by the position of the call.
DoBody(p) ==
    CASE p = "in_do" -> "in_byName"
      [] p = "out_do" -> "out_byName"
      [] p = "rb_do" -> "out_getCur"
      [] p = "cfg_do" -> "add_configure"

\* Where control goes when the Do at this position returns.
DoAfter(p, f) ==
    CASE p = "in_doExit" -> "add_moved"
      [] p = "out_doExit" -> IF f.outRet = "del" THEN "del_moved" ELSE "rb_doExit"
      [] p = "rb_doExit" -> "ret"
      [] p = "cfg_doExit" -> "add_configured"

\* ns.Do: save the thread's namespace, switch to the container's.
DoEnter ==
    /\ pc \in {"in_do", "out_do", "rb_do", "cfg_do"}
    /\ nsStack' = <<curNs>> \o nsStack
    /\ curNs' = "cont"
    /\ pc' = DoBody(pc)
    /\ UNCHANGED <<links, frame, lease, trace, links0, attached, ncmds, others>>

\* A Do that returns without switching back.
DoExitStay ==
    /\ pc \in {"in_doExit", "out_doExit", "rb_doExit", "cfg_doExit"}
    /\ curNs' = curNs
    /\ nsStack' = Tail(nsStack)
    /\ pc' = DoAfter(pc, frame)
    /\ UNCHANGED <<links, frame, lease, trace, links0, attached, ncmds, others>>

\* ns.Do returning: the saved namespace is restored on every path.
DoExit ==
    /\ pc \in {"in_doExit", "out_doExit", "rb_doExit", "cfg_doExit"}
    /\ curNs' = Head(nsStack)
    /\ nsStack' = Tail(nsStack)
    /\ pc' = DoAfter(pc, frame)
    /\ UNCHANGED <<links, frame, lease, trace, links0, attached, ncmds, others>>

\* ------------------------------------------------------------ moveLinkIn
\* A moveLinkIn that goes on when the link could not be set down.
InSetDownIgnoreErr ==
    /\ pc = "in_setDown"
    /\ \E ok \in BOOLEAN :
        LET l == frame.hostDev IN
        IF ok /\ Reachable(l)
        THEN /\ links' = LinkSetDown(l)
             /\ trace' = Log("LinkSetDown", TRUE)
             /\ frame' = frame
             /\ pc' = "in_setNs"
        ELSE /\ links' = links
             /\ trace' = Log("LinkSetDown", FALSE)
             /\ frame' = Fail(frame, ok, "E_down", "in_setDown")
             /\ pc' = "in_setNs"
    /\ UNCHANGED <<curNs, nsStack, lease, links0, attached, ncmds, others>>

\* LinkSetDown(hostDev) in the host namespace.
InSetDown ==
    /\ pc = "in_setDown"
    /\ \E ok \in BOOLEAN :
        LET l == frame.hostDev IN
        IF ok /\ Reachable(l)
        THEN /\ links' = LinkSetDown(l)
             /\ trace' = Log("LinkSetDown", TRUE)
             /\ frame' = frame
             /\ pc' = "in_setNs"
        ELSE /\ links' = links
             /\ trace' = Log("LinkSetDown", FALSE)
             /\ frame' = Fail(frame, ok, "E_down", "in_setDown")
             /\ pc' = "add_moved"
    /\ UNCHANGED <<curNs, nsStack, lease, links0, attached, ncmds, others>>

\* LinkSetNsFd(hostDev, containerNs).
InSetNs ==
    /\ pc = "in_setNs"
    /\ \E ok \in BOOLEAN :
        LET l == frame.hostDev IN
        IF ok /\ CanSetNs(l, "cont")
        THEN /\ links' = LinkSetNsFd(l, "cont")
             /\ trace' = Log("LinkSetNsFd", TRUE)
             /\ frame' = frame
             /\ pc' = "in_do"
        ELSE /\ links' = links
             /\ trace' = Log("LinkSetNsFd", FALSE)
             /\ frame' = Fail(frame, ok, "E_setns", "in_setNs")
             /\ pc' = "add_moved"
    /\ UNCHANGED <<curNs, nsStack, lease, links0, attached, ncmds, others>>

\* contDev = LinkByName(hostDev.Attrs().Name), inside the container.
InByName ==
    /\ pc = "in_byName"
    /\ \E ok \in BOOLEAN :
        LET l == LinkByName(frame.hostName) IN
        IF ok /\ l # NoLink
        THEN /\ trace' = Log("LinkByName", TRUE)
             /\ frame' = [frame EXCEPT !.contDev = l]
             /\ pc' = "in_setAlias"
        ELSE /\ trace' = Log("LinkByName", FALSE)
             /\ frame' = Fail(frame, ok, "E_find", "in_byName")
             /\ pc' = "in_doExit"
    /\ UNCHANGED <<links, curNs, nsStack, lease, links0, attached, ncmds, others>>

\* The alias stored on the container device: hostDev.Attrs().Name.
SavedAliasIfName(f) == f.ifName
SavedAlias(f) == f.hostName

\* LinkSetAlias(contDev, hostDev.Attrs().Name).
InSetAlias ==
    /\ pc = "in_setAlias"
    /\ \E ok \in BOOLEAN :
        LET l == frame.contDev IN
        IF ok /\ Reachable(l)
        THEN /\ links' = LinkSetAlias(l, SavedAlias(frame))
             /\ trace' = Log("LinkSetAlias", TRUE)
             /\ frame' = frame
             /\ pc' = "in_setName"
        ELSE /\ links' = links
             /\ trace' = Log("LinkSetAlias", FALSE)
             /\ frame' = Fail(frame, ok, "E_alias", "in_setAlias")
             /\ pc' = "in_doExit"
    /\ UNCHANGED <<curNs, nsStack, lease, links0, attached, ncmds, others>>

\* LinkSetName(contDev, ifName).
InSetName ==
    /\ pc = "in_setName"
    /\ \E ok \in BOOLEAN :
        LET l == frame.contDev IN
        IF ok /\ CanSetName(l, frame.ifName)
        THEN /\ links' = LinkSetName(l, frame.ifName)
             /\ trace' = Log("LinkSetName", TRUE)
             /\ frame' = frame
             /\ pc' = "in_byName2"
        ELSE /\ links' = links
             /\ trace' = Log("LinkSetName", FALSE)
             /\ frame' = Fail(frame, ok, "E_rename", "in_setName")
             /\ pc' = "in_doExit"
    /\ UNCHANGED <<curNs, nsStack, lease, links0, attached, ncmds, others>>

\* contDev = LinkByName(ifName): the refreshed handle.
InByName2 ==
    /\ pc = "in_byName2"
    /\ \E ok \in BOOLEAN :
        LET l == LinkByName(frame.ifName) IN
        IF ok /\ l # NoLink
        THEN /\ trace' = Log("LinkByName", TRUE)
             /\ frame' = [frame EXCEPT !.contDev = l]
        ELSE /\ trace' = Log("LinkByName", FALSE)
             /\ frame' = Fail(frame, ok, "E_find", "in_byName2")
    /\ pc' = "in_doExit"
    /\ UNCHANGED <<links, curNs, nsStack, lease, links0, attached, ncmds, others>>

\* ----------------------------------------------------------- moveLinkOut
\* Where moveLinkOut returns to: cmdDel, or the deferred rollback of cmdAdd.
OutReturn(f) == IF f.outRet = "del" THEN "del_moved" ELSE "rb_doExit"

\* A moveLinkOut that takes the host's namespace for the caller's.
OutGetCurrentNSHost ==
    /\ pc = "out_getCur"
    /\ \E ok \in BOOLEAN :
        IF ok
        THEN /\ frame' = [frame EXCEPT !.defaultNs = "host",
                            !.rt = IF attached.ifName = frame.ifName /\ curNs = "host"
                                   THEN attached ELSE NoAttach]
             /\ pc' = "out_do"
        ELSE /\ frame' = OutFail(frame, ok, "E_curns", "out_getCur")
             /\ pc' = OutReturn(frame)
    /\ trace' = Log("moveLinkOut", TRUE)
    /\ attached' = NoAttach
    /\ UNCHANGED <<links, curNs, nsStack, lease, links0, ncmds, others>>

\* defaultNs = ns.GetCurrentNS(): the namespace of the calling thread.
OutGetCurrentNS ==
    /\ pc = "out_getCur"
    /\ \E ok \in BOOLEAN :
        IF ok
        THEN /\ frame' = [frame EXCEPT !.defaultNs = curNs,
                            !.rt = IF attached.ifName = frame.ifName /\ curNs = "host"
                                   THEN attached ELSE NoAttach]
             /\ pc' = "out_do"
        ELSE /\ frame' = OutFail(frame, ok, "E_curns", "out_getCur")
             /\ pc' = OutReturn(frame)
    /\ trace' = Log("moveLinkOut", TRUE)
    /\ attached' = NoAttach
    /\ UNCHANGED <<links, curNs, nsStack, lease, links0, ncmds, others>>

\* dev = LinkByName(ifName), inside the container.
OutByName ==
    /\ pc = "out_byName"
    /\ \E ok \in BOOLEAN :
        LET l == LinkByName(frame.ifName) IN
        IF ok /\ l # NoLink
        THEN /\ trace' = Log("LinkByName", TRUE)
             /\ frame' = [frame EXCEPT !.dev = l, !.devAlias = links[l].alias]
             /\ pc' = "out_setDown"
        ELSE /\ trace' = Log("LinkByName", FALSE)
             /\ frame' = OutFail(frame, ok, "E_find", "out_byName")
             /\ pc' = "out_doExit"
    /\ UNCHANGED <<links, curNs, nsStack, lease, links0, attached, ncmds, others>>

\* A moveLinkOut that goes on when the link could not be set down.
OutSetDownIgnoreErr ==
    /\ pc = "out_setDown"
    /\ \E ok \in BOOLEAN :
        LET l == frame.dev IN
        IF ok /\ Reachable(l)
        THEN /\ links' = LinkSetDown(l)
             /\ trace' = Log("LinkSetDown", TRUE)
             /\ frame' = frame
             /\ pc' = "out_setName"
        ELSE /\ links' = links
             /\ trace' = Log("LinkSetDown", FALSE)
             /\ frame' = OutFail(frame, ok, "E_down", "out_setDown")
             /\ pc' = "out_setName"
    /\ UNCHANGED <<curNs, nsStack, lease, links0, attached, ncmds, others>>

\* LinkSetDown(dev).
OutSetDown ==
    /\ pc = "out_setDown"
    /\ \E ok \in BOOLEAN :
        LET l == frame.dev IN
        IF ok /\ Reachable(l)
        THEN /\ links' = LinkSetDown(l)
             /\ trace' = Log("LinkSetDown", TRUE)
             /\ frame' = frame
             /\ pc' = "out_setName"
        ELSE /\ links' = links
             /\ trace' = Log("LinkSetDown", FALSE)
             /\ frame' = OutFail(frame, ok, "E_down", "out_setDown")
             /\ pc' = "out_doExit"
    /\ UNCHANGED <<curNs, nsStack, lease, links0, attached, ncmds, others>>

\* The rename back is whatever the kernel makes of LinkSetName(dev, alias);
\* moveLinkOut itself does not look at the alias.
OutRenameOkLax(l, a) == a = "" \/ CanSetName(l, a)
OutRenameOk(l, a) == CanSetName(l, a)

\* LinkSetName(dev, dev.Attrs().Alias).
OutSetName ==
    /\ pc = "out_setName"
    /\ \E ok \in BOOLEAN :
        LET l == frame.dev IN
        IF ok /\ OutRenameOk(l, frame.devAlias)
        THEN /\ links' = LinkSetName(l, frame.devAlias)
             /\ trace' = Log("LinkSetName", TRUE)
             /\ frame' = frame
             /\ pc' = "out_setNs"
        ELSE /\ links' = links
             /\ trace' = Log("LinkSetName", FALSE)
             /\ frame' = OutFail(frame, ok, "E_rename", "out_setName")
             /\ pc' = "out_doExit"
    /\ UNCHANGED <<curNs, nsStack, lease, links0, attached, ncmds, others>>

\* A moveLinkOut that clears the alias once the link is moved.
OutSetNsClearAlias ==
    /\ pc = "out_setNs"
    /\ \E ok \in BOOLEAN :
        LET l == frame.dev IN
        IF ok /\ CanSetNs(l, frame.defaultNs)
        THEN /\ links' = [LinkSetNsFd(l, frame.defaultNs) EXCEPT ![l].alias = ""]
             /\ trace' = Log("LinkSetNsFd", TRUE)
             /\ frame' = frame
        ELSE /\ links' = links
             /\ trace' = Log("LinkSetNsFd", FALSE)
             /\ frame' = OutFail(frame, ok, "E_setns", "out_setNs")
    /\ pc' = "out_doExit"
    /\ UNCHANGED <<curNs, nsStack, lease, links0, attached, ncmds, others>>

\* LinkSetNsFd(dev, defaultNs).
OutSetNs ==
    /\ pc = "out_setNs"
    /\ \E ok \in BOOLEAN :
        LET l == frame.dev IN
        IF ok /\ CanSetNs(l, frame.defaultNs)
        THEN /\ links' = LinkSetNsFd(l, frame.defaultNs)
             /\ trace' = Log("LinkSetNsFd", TRUE)
             /\ frame' = frame
        ELSE /\ links' = links
             /\ trace' = Log("LinkSetNsFd", FALSE)
             /\ frame' = OutFail(frame, ok, "E_setns", "out_setNs")
    /\ pc' = "out_doExit"
    /\ UNCHANGED <<curNs, nsStack, lease, links0, attached, ncmds, others>>

\* ---------------------------------------------------------------- cmdAdd
StartAdd ==
    /\ pc = "idle"
    /\ ncmds < MaxCmds
    /\ \E n \in IfNames, c \in Confs : frame' = NewFrame("add", n, c)
    /\ pc' = "add_loadConf"
    /\ trace' = <<>>
    /\ links0' = links
    /\ attached' = NoAttach
    /\ ncmds' = ncmds + 1
    /\ UNCHANGED <<links, curNs, nsStack, lease, others>>

\* cfg, err := loadConf(args.StdinData)
AddLoadConf ==
    /\ pc = "add_loadConf"
    /\ IF loadConf(frame.cfg) # Nil
       THEN /\ frame' = Return([frame EXCEPT !.err = loadConf(frame.cfg)],
                               loadConf(frame.cfg), "loadConf")
            /\ pc' = "ret"
       ELSE /\ frame' = frame
            /\ pc' = "add_getNS"
    /\ UNCHANGED <<links, curNs, nsStack, lease, trace, links0, attached, ncmds, others>>

\* containerNs, err := ns.GetNS(args.Netns)
AddGetNS ==
    /\ pc = "add_getNS"
    /\ \E ok \in BOOLEAN :
        IF ok
        THEN /\ frame' = frame
             /\ pc' = "add_getLink"
        ELSE /\ frame' = Return(Fail(frame, ok, "E_netns", "GetNS"), "E_netns", "GetNS")
             /\ pc' = "ret"
    /\ UNCHANGED <<links, curNs, nsStack, lease, trace, links0, attached, ncmds, others>>

\* hostDev, err := getLink(cfg.Devices, cfg.HWAddrs, cfg.KernelPaths); its
\* netlink.LinkList can fail, and then no selector is tried.
AddGetLink ==
    /\ pc = "add_getLink"
    /\ \E ok \in BOOLEAN :
        LET l == getLink(frame.cfg.devices, frame.cfg.hwaddrs, frame.cfg.kernelpaths)
            e == IF ok THEN "E_notfound" ELSE "E_list"
        IN  IF ok /\ l # NoLink
            THEN /\ frame' = [frame EXCEPT !.hostDev = l, !.hostName = links[l].name]
                 /\ pc' = "in_setDown"
            ELSE /\ frame' = Return(Fail(frame, ok, e, "getLink"), e, "getLink")
                 /\ pc' = "ret"
    /\ UNCHANGED <<links, curNs, nsStack, lease, trace, links0, attached, ncmds, others>>

\* A cmdAdd that goes on to the IPAM plugin whatever moveLinkIn returned.
AddMovedIgnoreErr ==
    /\ pc = "add_moved"
    /\ frame' = [frame EXCEPT !.defers = <<"moveLinkOut">> \o @]
    /\ attached' = [link |-> frame.hostDev, orig |-> frame.hostName,
                    ifName |-> frame.ifName]
    /\ pc' = "add_execAdd"
    /\ UNCHANGED <<links, curNs, nsStack, lease, trace, links0, ncmds, others>>

\* contDev, err := moveLinkIn(...); on an error cmdAdd returns at once, with
\* no deferred call registered yet; otherwise the rollback is deferred.
AddMoved ==
    /\ pc = "add_moved"
    /\ IF frame.err # Nil
       THEN /\ frame' = [frame EXCEPT !.ret = "E_move"]
            /\ attached' = attached
            /\ pc' = "ret"
       ELSE /\ frame' = [frame EXCEPT !.defers = <<"moveLinkOut">> \o @]
            /\ attached' = [link |-> frame.hostDev, orig |-> frame.hostName,
                            ifName |-> frame.ifName]
            /\ pc' = "add_execAdd"
    /\ UNCHANGED <<links, curNs, nsStack, lease, trace, links0, ncmds, others>>

\* r, err := ipam.ExecAdd(...); on success the release is deferred.
AddExecAdd ==
    /\ pc = "add_execAdd"
    /\ \E ok \in BOOLEAN :
        IF ok
        THEN /\ lease' = TRUE
             /\ trace' = Log("ExecAdd", TRUE)
             /\ frame' = [frame EXCEPT !.defers = <<"ExecDel">> \o @]
             /\ pc' = "add_convert"
        ELSE /\ lease' = lease
             /\ trace' = Log("ExecAdd", FALSE)
             /\ frame' = Return(Fail(frame, ok, "E_ipam", "ExecAdd"), "E_ipam", "ExecAdd")
             /\ pc' = "ret"
    /\ UNCHANGED <<links, curNs, nsStack, links0, attached, ncmds, others>>

\* result, err := current.NewResultFromResult(r)
AddConvert ==
    /\ pc = "add_convert"
    /\ \E ok \in BOOLEAN :
        IF ok
        THEN /\ frame' = frame
             /\ pc' = "add_checkIPs"
        ELSE /\ frame' = Return(Fail(frame, ok, "E_convert", "NewResultFromResult"),
                                "E_convert", "NewResultFromResult")
             /\ pc' = "ret"
    /\ UNCHANGED <<links, curNs, nsStack, lease, trace, links0, attached, ncmds, others>>

\* if len(result.IPs) == 0 { return errors.New(...) }: the local err, which
\* the deferred calls read, is not assigned.
AddCheckIPs ==
    /\ pc = "add_checkIPs"
    /\ \E hasIPs \in BOOLEAN :
        IF hasIPs
        THEN /\ frame' = frame
             /\ pc' = "cfg_do"
        ELSE /\ frame' = Return(Fault(frame, hasIPs), "E_noip", "len(result.IPs)")
             /\ pc' = "ret"
    /\ UNCHANGED <<links, curNs, nsStack, lease, trace, links0, attached, ncmds, others>>

\* ipam.ConfigureIface(args.IfName, result), inside the container: it sets
\* the link up and then adds the addresses; either can fail.
AddConfigure ==
    /\ pc = "add_configure"
    /\ \E ok \in BOOLEAN, up \in BOOLEAN :
        LET l == LinkByName(frame.ifName) IN
        IF ok /\ up /\ l # NoLink
        THEN /\ links' = [links EXCEPT ![l].up = TRUE]
             /\ trace' = Log("ConfigureIface", TRUE)
             /\ frame' = frame
        ELSE /\ links' = IF up /\ l # NoLink THEN [links EXCEPT ![l].up = TRUE] ELSE links
             /\ trace' = Log("ConfigureIface", FALSE)
             /\ frame' = Fail(frame, ok, "E_configure", "ConfigureIface")
    /\ pc' = "cfg_doExit"
    /\ UNCHANGED <<curNs, nsStack, lease, links0, attached, ncmds, others>>

\* if err != nil { return err } after the Do that configures the interface.
AddConfigured ==
    /\ pc = "add_configured"
    /\ IF frame.err # Nil
       THEN /\ frame' = [frame EXCEPT !.ret = frame.err]
            /\ pc' = "ret"
       ELSE /\ frame' = frame
            /\ pc' = "add_version"
    /\ UNCHANGED <<links, curNs, nsStack, lease, trace, links0, attached, ncmds, others>>

\* newResult, err := result.GetAsVersion(cfg.CNIVersion)
AddVersion ==
    /\ pc = "add_version"
    /\ \E ok \in BOOLEAN :
        IF ok
        THEN /\ frame' = frame
             /\ pc' = "add_print"
        ELSE /\ frame' = Return(Fail(frame, ok, "E_version", "GetAsVersion"),
                                "E_version", "GetAsVersion")
             /\ pc' = "ret"
    /\ UNCHANGED <<links, curNs, nsStack, lease, trace, links0, attached, ncmds, others>>

\* return newResult.Print(): the local err is not assigned.
AddPrint ==
    /\ pc = "add_print"
    /\ \E ok \in BOOLEAN :
        IF ok
        THEN frame' = frame
        ELSE frame' = Return(Fault(frame, ok), "E_print", "Print")
    /\ pc' = "ret"
    /\ UNCHANGED <<links, curNs, nsStack, lease, trace, links0, attached, ncmds, others>>

\* Deferred calls run in the order they were registered.
RunDefersFifo ==
    /\ pc = "ret"
    /\ IF frame.defers = <<>>
       THEN /\ frame' = frame
            /\ pc' = "done"
       ELSE LET d == frame.defers[Len(frame.defers)]
                f == [frame EXCEPT !.defers = SubSeq(@, 1, Len(@) - 1)]
            IN  IF frame.err = Nil
                THEN /\ frame' = f
                     /\ pc' = "ret"
                ELSE IF d = "ExecDel"
                THEN /\ frame' = f
                     /\ pc' = "df_execDel"
                ELSE /\ frame' = [f EXCEPT !.outRet = "rollback"]
                     /\ pc' = "rb_do"
    /\ UNCHANGED <<links, curNs, nsStack, lease, trace, links0, attached, ncmds, others>>

\* The function returns: its deferred calls run, last registered first.
\* Each of cmdAdd's two reads the local err and acts only when it is set.
RunDefers ==
    /\ pc = "ret"
    /\ IF frame.defers = <<>>
       THEN /\ frame' = frame
            /\ pc' = "done"
       ELSE LET d == Head(frame.defers)
                f == [frame EXCEPT !.defers = Tail(@)]
            IN  IF frame.err = Nil
                THEN /\ frame' = f
                     /\ pc' = "ret"
                ELSE IF d = "ExecDel"
                THEN /\ frame' = f
                     /\ pc' = "df_execDel"
                ELSE /\ frame' = [f EXCEPT !.outRet = "rollback"]
                     /\ pc' = "rb_do"
    /\ UNCHANGED <<links, curNs, nsStack, lease, trace, links0, attached, ncmds, others>>

\* defer: ipam.ExecDel(cfg.IPAM.Type, args.StdinData), its error dropped.
DeferExecDel ==
    /\ pc = "df_execDel"
    /\ \E ok \in BOOLEAN :
        /\ lease' = IF ok THEN FALSE ELSE lease
        /\ trace' = Log("ExecDel", ok)
        /\ frame' = Fault(frame, ok)
    /\ pc' = "ret"
    /\ UNCHANGED <<links, curNs, nsStack, links0, attached, ncmds, others>>

\* ---------------------------------------------------------------- cmdDel
StartDel ==
    /\ pc = "idle"
    /\ ncmds < MaxCmds
    /\ \E n \in IfNames, c \in Confs : frame' = NewFrame("del", n, c)
    /\ pc' = "del_loadConf"
    /\ trace' = <<>>
    /\ links0' = links
    /\ ncmds' = ncmds + 1
    /\ UNCHANGED <<links, curNs, nsStack, lease, attached, others>>

\* cfg, err := loadConf(args.StdinData)
DelLoadConf ==
    /\ pc = "del_loadConf"
    /\ IF loadConf(frame.cfg) # Nil
       THEN /\ frame' = Return([frame EXCEPT !.err = loadConf(frame.cfg)],
                               loadConf(frame.cfg), "loadConf")
            /\ pc' = "ret"
       ELSE /\ frame' = frame
            /\ pc' = "del_execDel"
    /\ UNCHANGED <<links, curNs, nsStack, lease, trace, links0, attached, ncmds, others>>

\* if err != nil { return err } after ExecDel.
AfterExecDelIgnoreErr(ok) == "del_getNS"
AfterExecDel(ok) == IF ok THEN "del_getNS" ELSE "ret"

\* err = ipam.ExecDel(...); if err != nil { return err }
DelExecDel ==
    /\ pc = "del_execDel"
    /\ \E ok \in BOOLEAN :
        /\ IF ok
           THEN /\ lease' = FALSE
                /\ trace' = Log("ExecDel", TRUE)
                /\ frame' = frame
           ELSE /\ lease' = lease
                /\ trace' = Log("ExecDel", FALSE)
                /\ frame' = Return(Fail(frame, ok, "E_ipam", "ExecDel"),
                                   "E_ipam", "ExecDel")
        /\ pc' = AfterExecDel(ok)
    /\ UNCHANGED <<links, curNs, nsStack, links0, attached, ncmds, others>>

\* containerNs, err := ns.GetNS(args.Netns)
DelGetNS ==
    /\ pc = "del_getNS"
    /\ \E ok \in BOOLEAN :
        IF ok
        THEN /\ frame' = [frame EXCEPT !.outRet = "del"]
             /\ pc' = "out_getCur"
        ELSE /\ frame' = Return(Fail(frame, ok, "E_netns", "GetNS"), "E_netns", "GetNS")
             /\ pc' = "ret"
    /\ UNCHANGED <<links, curNs, nsStack, lease, trace, links0, attached, ncmds, others>>

\* if err := moveLinkOut(containerNs, args.IfName); err != nil { return err }
DelMoved ==
    /\ pc = "del_moved"
    /\ frame' = IF frame.outErr # Nil
                THEN Return(frame, frame.outErr, frame.outAt)
                ELSE frame
    /\ pc' = "ret"
    /\ UNCHANGED <<links, curNs, nsStack, lease, trace, links0, attached, ncmds, others>>

\* The process exits; the next invocation starts from nothing but the
\* kernel's and the IPAM service's state.
Exit ==
    /\ pc = "done"
    /\ pc' = "idle"
    /\ frame' = IdleFrame
    /\ trace' = <<>>
    /\ links0' = links
    /\ UNCHANGED <<links, curNs, nsStack, lease, attached, ncmds, others>>

\* ------------------------------------------------------------------ Spec
\* The host-device plugin not running (the other specifications).
HostIdle ==
    /\ links = [l \in 1..NumLinks |-> [ns |-> "host", name |-> DevName(l), alias |-> "", up |-> FALSE]]
    /\ curNs = "host"
    /\ nsStack = <<>>
    /\ pc = "idle"
    /\ frame = IdleFrame
    /\ lease = FALSE
    /\ trace = <<>>
    /\ links0 = links
    /\ attached = NoAttach
    /\ ncmds = 0

\* vdn-dhcp not running (the other specifications).
DhcpIdle ==
    /\ dinput = <<>>
    /\ dpc = "idle"
    /\ dframe = <<>>
    /\ contacted = <<>>
    /\ dstdout = <<>>

\* multicni not running (the other specifications).
MultiIdle ==
    /\ minput = <<>>
    /\ mpc = "idle"
    /\ mframe = <<>>
    /\ environ = <<>>
    /\ invoked = <<>>
    /\ stdout = <<>>
    /\ inflight = 0
    /\ ran = <<>>

\* Every link carries its boot name and no alias; it may already sit in
\* the container's namespace, and may be up.
Init ==
    /\ \E nsf \in [1..NumLinks -> {"host", "cont"}], upf \in [1..NumLinks -> BOOLEAN] :
        links = [l \in 1..NumLinks |-> [ns |-> nsf[l], name |-> DevName(l),
                                  alias |-> "", up |-> upf[l]]]
    /\ curNs = "host"
    /\ nsStack = <<>>
    /\ pc = "idle"
    /\ frame = IdleFrame
    /\ lease = FALSE
    /\ trace = <<>>
    /\ links0 = links
    /\ attached = NoAttach
    /\ ncmds = 0
    /\ ifname = <<>>
    /\ podif = <<>>
    /\ produced = <<>>
    /\ MultiIdle
    /\ DhcpIdle

Next ==
    \/ StartAdd \/ AddLoadConf \/ AddGetNS \/ AddGetLink
    \/ InSetDown \/ InSetNs \/ InByName \/ InSetAlias \/ InSetName \/ InByName2
    \/ AddMoved \/ AddExecAdd \/ AddConvert \/ AddCheckIPs
    \/ AddConfigure \/ AddConfigured \/ AddVersion \/ AddPrint
    \/ RunDefers \/ DeferExecDel
    \/ StartDel \/ DelLoadConf \/ DelExecDel \/ DelGetNS \/ DelMoved
    \/ OutGetCurrentNS \/ OutByName \/ OutSetDown \/ OutSetName \/ OutSetNs
    \/ DoEnter \/ DoExit \/ Exit

Spec == Init /\ [][Next]_vars

\* ============================================== multicni: getifname
\* Interface names are sequences of one-character strings.
MaxLen == 4
MaxCalls == 3

Alphabet == {"e", "t", "h", "0", "1"}
Digits == <<"0", "1", "2", "3", "4", "5", "6", "7", "8", "9">>
IsDigit(c) == \E d \in 1..10 : Digits[d] = c
DigitVal(c) == (CHOOSE d \in 1..10 : Digits[d] = c) - 1

BaseNames == UNION {[1..n -> Alphabet] : n \in 0..MaxLen}

\* strings.LastIndexAny(s, "0123456789"): the 0-based index of the last
\* digit of s, -1 when it has none.
LastIndexAny(s) ==
    IF \E i \in 1..Len(s) : IsDigit(s[i])
    THEN (CHOOSE i \in 1..Len(s) :
              IsDigit(s[i]) /\ \A j \in (i + 1)..Len(s) : ~IsDigit(s[j])) - 1
    ELSE -1

RECURSIVE DecimalValue(_)
DecimalValue(s) ==
    IF s = <<>> THEN 0
    ELSE 10 * DecimalValue(SubSeq(s, 1, Len(s) - 1)) + DigitVal(s[Len(s)])

\* strconv.Atoi over this alphabet (no sign): a syntax error, with value 0,
\* unless s is a non-empty run of digits.
Atoi(s) ==
    IF s # <<>> /\ \A i \in 1..Len(s) : IsDigit(s[i])
    THEN [i |-> DecimalValue(s), err |-> FALSE]
    ELSE [i |-> 0, err |-> TRUE]

\* The %d of fmt.Sprintf, for n >= 0.
RECURSIVE Itoa(_)
Itoa(n) == IF n < 10 THEN <<Digits[n + 1]>> ELSE Itoa(n \div 10) \o <<Digits[(n % 10) + 1]>>

\* getifname up to the closure: the variables the closure captures.
getifname(name) ==
    LET idx == LastIndexAny(name) IN
    IF idx < 0
    THEN [prefix |-> name, ifIdx |-> 0]
    ELSE LET a == Atoi(SubSeq(name, idx + 1, Len(name))) IN
         [prefix |-> SubSeq(name, 1, idx),
          \* if i, err := strconv.Atoi(...); err != nil { ifIdx = i }
          ifIdx |-> IF a.err THEN a.i ELSE 0]

\* The index the closure leaves behind: ifIdx++ on both paths.
NextIfIdxStuck(c) == IF c.ifIdx = 0 THEN 0 ELSE c.ifIdx + 1
NextIfIdx(c) == c.ifIdx + 1

\* A Del that hands every delegate the base name.
ProduceDelBase(name, c) ==
    IF mframe.cmd = "del" \/ c.ifIdx = 0
    THEN [iface |-> name, isDefault |-> TRUE, next |-> [c EXCEPT !.ifIdx = NextIfIdx(c)]]
    ELSE [iface |-> c.prefix \o Itoa(c.ifIdx), isDefault |-> FALSE,
          next |-> [c EXCEPT !.ifIdx = NextIfIdx(c)]]

\* One call of the closure getifname returned, on the captured c.
Produce(name, c) ==
    IF c.ifIdx = 0
    THEN [iface |-> name, isDefault |-> TRUE, next |-> [c EXCEPT !.ifIdx = NextIfIdx(c)]]
    ELSE [iface |-> c.prefix \o Itoa(c.ifIdx), isDefault |-> FALSE,
          next |-> [c EXCEPT !.ifIdx = NextIfIdx(c)]]

\* Two allocators built from the same base name, called independently.
Allocators == {1, 2}

AllocInit ==
    /\ ifname \in BaseNames
    /\ podif = [a \in Allocators |-> getifname(ifname)]
    /\ produced = [a \in Allocators |-> <<>>]
    /\ HostIdle
    /\ MultiIdle
    /\ DhcpIdle

\* podif(): allocator a hands out its next name.
Call(a) ==
    /\ Len(produced[a]) < MaxCalls
    /\ LET r == Produce(ifname, podif[a]) IN
        /\ produced' = [produced EXCEPT ![a] = Append(@, [iface |-> r.iface,
                                                          isDefault |-> r.isDefault])]
        /\ podif' = [podif EXCEPT ![a] = r.next]
    /\ UNCHANGED <<ifname, hdVars, multiVars, dhcpVars>>

AllocNext == \E a \in Allocators : Call(a)

SpecAlloc == AllocInit /\ [][AllocNext]_vars

\* ============================================ multicni: cmdAdd / cmdDel
MaxPlugins == 2
MaxPodPlugins == 2

\* A field of a plugin's map[string]interface{}: a string, or absent
\* ("<nil>"), or a value that is no string ("<num>").
isString(v) == v \notin {"<nil>", "<num>"}

\* The entries a "plugins" list is made of.
PluginEntries ==
    { [name |-> "A", type |-> "ta"],
      [name |-> "B", type |-> "tb"],
      [name |-> "", type |-> "tc"],
      [name |-> "<nil>", type |-> "ta"],
      [name |-> "B", type |-> "<num>"] }

PluginNames == {"A", "B"}

SeqsUpTo(S, n) == UNION {[1..k -> S] : k \in 0..n}

\* What the lookup of the pod's "cni-plugins" annotation comes to.
Annotations ==
    {[st |-> st, list |-> <<>>] : st \in {"noclient", "nopod", "noannot", "badjson"}}
        \cup {[st |-> "ok", list |-> l] : l \in SeqsUpTo(PluginNames, MaxPodPlugins)}

MultiInputs ==
    [IfName : {<<"e", "t", "h", "0">>, <<"e", "t", "h", "1">>},
     Default : {"", "A", "B"},
     Plugins : SeqsUpTo(PluginEntries, MaxPlugins),
     k8s : Annotations]

loadNetConf(in) ==
    IF in.Default = "" THEN "E_default"
    ELSE IF Len(in.Plugins) = 0 THEN "E_noplugins"
    ELSE Nil

checkPlugin(netconf) ==
    IF netconf.type = "<nil>" \/ ~isString(netconf.type) THEN "E_type"
    ELSE IF netconf.name = "<nil>" \/ ~isString(netconf.name) THEN "E_name"
    ELSE Nil

\* A lookup that takes the head of the static list whatever the name.
FindPluginFirst(plugins, n) == IF Len(plugins) > 0 THEN 1 ELSE 0

\* A lookup that falls back to the head of the static list.
FindPluginFallback(plugins, n) ==
    IF \E j \in 1..Len(plugins) : plugins[j].name = n
    THEN CHOOSE j \in 1..Len(plugins) :
            plugins[j].name = n /\ \A k \in 1..(j - 1) : plugins[k].name # n
    ELSE IF Len(plugins) > 0 THEN 1 ELSE 0

\* for _, plugin := range conf.Plugins { if plugin["name"] == n ... }: the
\* index of the first plugin so named, 0 when there is none.
FindPlugin(plugins, n) ==
    IF \E j \in 1..Len(plugins) : plugins[j].name = n
    THEN CHOOSE j \in 1..Len(plugins) :
            plugins[j].name = n /\ \A k \in 1..(j - 1) : plugins[k].name # n
    ELSE 0

NewMFrame(c) ==
    [cmd |-> c, podPlugins |-> <<>>, podifName |-> [prefix |-> <<>>, ifIdx |-> 0],
     i |-> 1, plugin |-> 0, iface |-> <<>>, isDefault |-> FALSE,
     ret |-> Nil, failedAt |-> ""]

MReturn(f, e, at) == [f EXCEPT !.ret = e, !.failedAt = at]

\* One process per command: Add, Del, or Add and then Del on the same input.
MStart(c) ==
    /\ mpc = "idle"
    /\ ran = <<>> \/ (Len(ran) = 1 /\ ran[1].cmd = "add" /\ c = "del")
    /\ ran' = Append(ran, [cmd |-> c, ret |-> "running"])
    /\ mframe' = NewMFrame(c)
    /\ mpc' = "m_load"
    /\ UNCHANGED <<minput, environ, invoked, stdout, inflight, hdVars, allocVars, dhcpVars>>

\* conf, err := loadNetConf(args.StdinData)
MLoadNetConf ==
    /\ mpc = "m_load"
    /\ IF loadNetConf(minput) # Nil
       THEN /\ mframe' = MReturn(mframe, loadNetConf(minput), "loadNetConf")
            /\ mpc' = "m_done"
       ELSE /\ mframe' = mframe
            /\ mpc' = "m_check"
    /\ UNCHANGED <<minput, environ, invoked, stdout, inflight, ran, hdVars, allocVars, dhcpVars>>

\* for _, plugin := range conf.Plugins { checkPlugin(plugin) }
MCheckPlugins ==
    /\ mpc = "m_check"
    /\ IF \E j \in 1..Len(minput.Plugins) : checkPlugin(minput.Plugins[j]) # Nil
       THEN /\ mframe' = MReturn(mframe, "E_plugin", "checkPlugin")
            /\ mpc' = "m_done"
       ELSE /\ mframe' = mframe
            /\ mpc' = "m_k8s"
    /\ UNCHANGED <<minput, environ, invoked, stdout, inflight, ran, hdVars, allocVars, dhcpVars>>

\* The pod's plugin list: no client, no pod and no annotation leave it
\* empty; an annotation that does not parse ends the command.
MPodPlugins ==
    /\ mpc = "m_k8s"
    /\ IF minput.k8s.st = "badjson"
       THEN /\ mframe' = MReturn(mframe, "E_annotation", "parsePodNetworkObject")
            /\ mpc' = "m_done"
       ELSE /\ mframe' = [mframe EXCEPT !.podPlugins = minput.k8s.list]
            /\ mpc' = "m_getifname"
    /\ UNCHANGED <<minput, environ, invoked, stdout, inflight, ran, hdVars, allocVars, dhcpVars>>

\* podifName := getifname(args.IfName)
MGetifname ==
    /\ mpc = "m_getifname"
    /\ mframe' = [mframe EXCEPT !.podifName = getifname(minput.IfName), !.i = 1]
    /\ mpc' = "m_loop"
    /\ UNCHANGED <<minput, environ, invoked, stdout, inflight, ran, hdVars, allocVars, dhcpVars>>

\* The head of the loops of cmdAdd / cmdDel: the next pod plugin looked up
\* in conf.Plugins, or, with no pod plugins, the default one (then break).
MLoop ==
    /\ mpc = "m_loop"
    /\ LET pp == mframe.podPlugins
           name == IF Len(pp) > 0 THEN pp[mframe.i] ELSE minput.Default
           last == IF Len(pp) > 0 THEN Len(pp) ELSE 1
       IN  IF mframe.i > last
           THEN /\ mframe' = mframe
                /\ mpc' = "m_done"
           ELSE IF FindPlugin(minput.Plugins, name) # 0
           THEN /\ mframe' = [mframe EXCEPT !.plugin = FindPlugin(minput.Plugins, name)]
                /\ mpc' = "m_podif"
           ELSE IF Len(pp) > 0
           THEN /\ mframe' = MReturn(mframe, "E_notfound", "find")
                /\ mpc' = "m_done"
           ELSE /\ mframe' = mframe
                /\ mpc' = "m_done"
    /\ UNCHANGED <<minput, environ, invoked, stdout, inflight, ran, hdVars, allocVars, dhcpVars>>

\* A dispatcher that allocates the name and leaves the environment alone.
MPodifStale ==
    /\ mpc = "m_podif"
    /\ LET r == Produce(minput.IfName, mframe.podifName)
           f == [mframe EXCEPT !.podifName = r.next, !.iface = r.iface,
                               !.isDefault = r.isDefault]
       IN  \E ok \in BOOLEAN :
            IF ok
            THEN /\ environ' = environ
                 /\ mframe' = f
                 /\ mpc' = "m_invoke"
            ELSE /\ environ' = environ
                 /\ mframe' = MReturn(f, "E_setenv", "Setenv")
                 /\ mpc' = "m_done"
    /\ UNCHANGED <<minput, invoked, stdout, inflight, ran, hdVars, allocVars, dhcpVars>>

\* iface, isDefault := podif(); os.Setenv("CNI_IFNAME", iface)
MPodif ==
    /\ mpc = "m_podif"
    /\ LET r == Produce(minput.IfName, mframe.podifName)
           f == [mframe EXCEPT !.podifName = r.next, !.iface = r.iface,
                               !.isDefault = r.isDefault]
       IN  \E ok \in BOOLEAN :
            IF ok
            THEN /\ environ' = r.iface
                 /\ mframe' = f
                 /\ mpc' = "m_invoke"
            ELSE /\ environ' = environ
                 /\ mframe' = MReturn(f, "E_setenv", "Setenv")
                 /\ mpc' = "m_done"
    /\ UNCHANGED <<minput, invoked, stdout, inflight, ran, hdVars, allocVars, dhcpVars>>

\* A dispatcher that starts the delegate and does not wait for it.
MInvokeAsync ==
    /\ mpc = "m_invoke"
    /\ invoked' = Append(invoked, [cmd |-> mframe.cmd, plugin |-> mframe.plugin,
                                   type |-> minput.Plugins[mframe.plugin].type,
                                   ifname |-> environ, isDefault |-> mframe.isDefault,
                                   pos |-> mframe.i])
    /\ inflight' = inflight + 1
    /\ mpc' = "m_loop"
    /\ mframe' = [mframe EXCEPT !.i = @ + 1]
    /\ UNCHANGED <<minput, environ, stdout, ran, hdVars, allocVars, dhcpVars>>

\* invoke.DelegateAdd / invoke.DelegateDel starts the delegate, which takes
\* its interface name from the environment.
MInvoke ==
    /\ mpc = "m_invoke"
    /\ invoked' = Append(invoked, [cmd |-> mframe.cmd, plugin |-> mframe.plugin,
                                   type |-> minput.Plugins[mframe.plugin].type,
                                   ifname |-> environ, isDefault |-> mframe.isDefault,
                                   pos |-> mframe.i])
    /\ inflight' = inflight + 1
    /\ mpc' = "m_running"
    /\ UNCHANGED <<minput, mframe, environ, stdout, ran, hdVars, allocVars, dhcpVars>>

\* An Add that notes a delegate's failure and goes on to the next one.
MInvokedAddContinue ==
    /\ mpc = "m_running"
    /\ inflight' = inflight - 1
    /\ \E ok \in BOOLEAN, printed \in BOOLEAN :
        IF ~ok
        THEN /\ mframe' = IF mframe.cmd = "add"
                          THEN [MReturn(mframe, "E_delegate", "invoke") EXCEPT !.i = @ + 1]
                          ELSE MReturn(mframe, "E_delegate", "invoke")
             /\ stdout' = stdout
             /\ mpc' = IF mframe.cmd = "add" THEN "m_loop" ELSE "m_done"
        ELSE IF mframe.cmd = "add" /\ mframe.isDefault
        THEN /\ stdout' = IF printed
                          THEN Append(stdout, [cmd |-> "add", plugin |-> mframe.plugin])
                          ELSE stdout
             /\ mframe' = IF printed THEN [mframe EXCEPT !.i = @ + 1]
                          ELSE MReturn(mframe, "E_print", "Print")
             /\ mpc' = IF printed THEN "m_loop" ELSE "m_done"
        ELSE /\ stdout' = stdout
             /\ mframe' = [mframe EXCEPT !.i = @ + 1]
             /\ mpc' = "m_loop"
    /\ UNCHANGED <<minput, environ, invoked, ran, hdVars, allocVars, dhcpVars>>

\* A Del that notes a delegate's failure and goes on to the next one.
MInvokedDelContinue ==
    /\ mpc = "m_running"
    /\ inflight' = inflight - 1
    /\ \E ok \in BOOLEAN, printed \in BOOLEAN :
        IF ~ok
        THEN /\ mframe' = IF mframe.cmd = "del"
                          THEN [MReturn(mframe, "E_delegate", "invoke") EXCEPT !.i = @ + 1]
                          ELSE MReturn(mframe, "E_delegate", "invoke")
             /\ stdout' = stdout
             /\ mpc' = IF mframe.cmd = "del" THEN "m_loop" ELSE "m_done"
        ELSE IF mframe.cmd = "add" /\ mframe.isDefault
        THEN /\ stdout' = IF printed
                          THEN Append(stdout, [cmd |-> "add", plugin |-> mframe.plugin])
                          ELSE stdout
             /\ mframe' = IF printed THEN [mframe EXCEPT !.i = @ + 1]
                          ELSE MReturn(mframe, "E_print", "Print")
             /\ mpc' = IF printed THEN "m_loop" ELSE "m_done"
        ELSE /\ stdout' = stdout
             /\ mframe' = [mframe EXCEPT !.i = @ + 1]
             /\ mpc' = "m_loop"
    /\ UNCHANGED <<minput, environ, invoked, ran, hdVars, allocVars, dhcpVars>>

\* The delegate returns. delegateAdd prints the result of the delegate
\* whose name podif marked; delegateDel has nothing to print.
MInvoked ==
    /\ mpc = "m_running"
    /\ inflight' = inflight - 1
    /\ \E ok \in BOOLEAN, printed \in BOOLEAN :
        IF ~ok
        THEN /\ mframe' = MReturn(mframe, "E_delegate", "invoke")
             /\ stdout' = stdout
             /\ mpc' = "m_done"
        ELSE IF mframe.cmd = "add" /\ mframe.isDefault
        THEN /\ stdout' = IF printed
                          THEN Append(stdout, [cmd |-> "add", plugin |-> mframe.plugin])
                          ELSE stdout
             /\ mframe' = IF printed THEN [mframe EXCEPT !.i = @ + 1]
                          ELSE MReturn(mframe, "E_print", "Print")
             /\ mpc' = IF printed THEN "m_loop" ELSE "m_done"
        ELSE /\ stdout' = stdout
             /\ mframe' = [mframe EXCEPT !.i = @ + 1]
             /\ mpc' = "m_loop"
    /\ UNCHANGED <<minput, environ, invoked, ran, hdVars, allocVars, dhcpVars>>

\* The process exits.
MExit ==
    /\ mpc = "m_done"
    /\ mpc' = "idle"
    /\ ran' = [ran EXCEPT ![Len(ran)].ret = mframe.ret]
    /\ UNCHANGED <<minput, mframe, environ, invoked, stdout, inflight, hdVars, allocVars, dhcpVars>>

MultiInit ==
    /\ minput \in MultiInputs
    /\ mpc = "idle"
    /\ mframe = NewMFrame("none")
    /\ environ = minput.IfName
    /\ invoked = <<>>
    /\ stdout = <<>>
    /\ inflight = 0
    /\ ran = <<>>
    /\ HostIdle
    /\ ifname = <<>>
    /\ podif = <<>>
    /\ produced = <<>>
    /\ DhcpIdle

MultiNext ==
    \/ \E c \in {"add", "del"} : MStart(c)
    \/ MLoadNetConf \/ MCheckPlugins \/ MPodPlugins \/ MGetifname
    \/ MLoop \/ MPodif \/ MInvoke \/ MInvoked \/ MExit

SpecMulti == MultiInit /\ [][MultiNext]_vars

\* ===================================================== host-device: getLink
\* getLink on its own: a kernel of NumLive links, each in the host or in
\* some container, and every selector list of up to MaxSel entries.
NumLive == 3
MaxSel == 2

LinkConfs ==
    [devices : SeqsUpTo({"ens1", "ens9"}, MaxSel),
     hwaddrs : SeqsUpTo({"aa:00:00:00:00:01", "aa:00:00:00:00:02", "zz"}, MaxSel),
     kernelpaths : SeqsUpTo({PciPath(3), <<"sys", "devices", "pci0", "ens3">>}, MaxSel)]

LinkInit ==
    /\ \E nsf \in [1..NumLive -> {"host", "cont"}] :
        links = [l \in 1..NumLive |-> [ns |-> nsf[l], name |-> DevName(l),
                                       alias |-> "", up |-> FALSE]]
    /\ curNs = "host"
    /\ nsStack = <<>>
    /\ pc = "idle"
    /\ frame = IdleFrame
    /\ lease = FALSE
    /\ trace = <<>>
    /\ links0 = links
    /\ attached = NoAttach
    /\ ncmds = 0
    /\ ifname = <<>>
    /\ podif = <<>>
    /\ produced = <<>>
    /\ MultiIdle
    /\ DhcpIdle

\* hostDev, err := getLink(cfg.Devices, cfg.HWAddrs, cfg.KernelPaths); its
\* netlink.LinkList can fail, and then no selector is tried.
Resolve(conf) ==
    /\ pc = "idle"
    /\ \E ok \in BOOLEAN :
        LET l == IF ok THEN getLink(conf.devices, conf.hwaddrs, conf.kernelpaths)
                 ELSE NoLink
            e == IF ~ok THEN "E_list" ELSE IF l # NoLink THEN Nil ELSE "E_notfound"
        IN  frame' = [Fault(NewFrame("getLink", "", conf), ok) EXCEPT
                          !.hostDev = l,
                          !.hostName = IF l # NoLink THEN links[l].name ELSE "",
                          !.err = e]
    /\ pc' = "resolved"
    /\ UNCHANGED <<links, curNs, nsStack, lease, trace, links0, attached, ncmds, others>>

LinkNext == pc = "idle" /\ \E conf \in LinkConfs : Resolve(conf)

SpecLink == LinkInit /\ [][LinkNext]_vars

\* ====================================================== ipam/vdn-dhcp
MaxServers == 3

\* What the server behind a configured URL does with a request: the
\* connection fails, it answers with a status other than 200, it answers 200
\* with a body that is not JSON, or it answers 200 with a JSON document.
ServerKinds == {"transport", "status", "badbody", "ok"}

NilResp == [status |-> 0, body |-> "none"]

\* c.httpClient.Do(req): the response, nil with a transport error.
HttpDo(kind) ==
    CASE kind = "transport" -> [r |-> NilResp, err |-> "E_transport"]
      [] kind = "status" -> [r |-> [status |-> 500, body |-> "json"], err |-> Nil]
      [] kind = "badbody" -> [r |-> [status |-> 200, body |-> "garbage"], err |-> Nil]
      [] kind = "ok" -> [r |-> [status |-> 200, body |-> "json"], err |-> Nil]

\* json.NewDecoder(body).Decode(v): the value is read first, then stored
\* through v, which must be a pointer.
Decode(body, v) ==
    IF body # "json" THEN "E_syntax"
    ELSE IF v # "pointer" THEN "E_nonpointer"
    ELSE Nil

\* RestClient.do: with a transport error the response is nil; the body is
\* decoded only when the caller gave somewhere to put it (v != nil).
RestDo(kind, v) ==
    LET h == HttpDo(kind) IN
    IF h.err # Nil THEN h
    ELSE [r |-> h.r, err |-> IF v # "nil" THEN Decode(h.r.body, v) ELSE Nil]

\* r, err := c.do(...); if r.StatusCode != 200 { err = ... }; return err.
\* Reading r.StatusCode of a nil response is a nil dereference: the process
\* panics.
StatusChecked(d) ==
    IF d.r = NilResp THEN "panic"
    ELSE IF d.r.status # 200 THEN "E_status"
    ELSE d.err

\* RestClient.Put(path, body, resp).
Put(kind, resp) == StatusChecked(RestDo(kind, resp))

\* RestClient.Delete(path): no response document is asked for.
Delete(kind) == StatusChecked(RestDo(kind, "nil"))

\* What cmdAdd hands to Put as resp: dhcpResp itself, a struct value.
RespArg == "value"

\* dhcpResp.ClientIp after the call: Put can fill in cmdAdd's variable only
\* through a pointer to it.
ClientIp(kind, resp) == IF resp = "pointer" /\ kind = "ok" THEN "10.0.0.1" ELSE ""

\* net.ParseIP(s) != nil
ParseIPOk(s) == s # ""

ServerLists == UNION {[1..n -> ServerKinds] : n \in 0..MaxServers}

NewDFrame == [i |-> 0, err |-> Nil, ret |-> Nil]

DhcpInit ==
    /\ dinput \in [cmd : {"add", "del"}, servers : ServerLists]
    /\ dpc = "d_loadConf"
    /\ dframe = NewDFrame
    /\ contacted = <<>>
    /\ dstdout = <<>>
    /\ HostIdle
    /\ ifname = <<>>
    /\ podif = <<>>
    /\ produced = <<>>
    /\ MultiIdle

\* conf, err := loadConf(args.StdinData)
DhcpLoadConf ==
    /\ dpc = "d_loadConf"
    /\ \E ok \in BOOLEAN :
        IF ok
        THEN /\ dframe' = dframe
             /\ dpc' = "d_macAddr"
        ELSE /\ dframe' = [dframe EXCEPT !.ret = "E_conf"]
             /\ dpc' = "d_done"
    /\ UNCHANGED <<dinput, contacted, dstdout, hdVars, allocVars, multiVars>>

\* macAddr, err := macAddr(args.Netns, args.IfName)
DhcpMacAddr ==
    /\ dpc = "d_macAddr"
    /\ \E ok \in BOOLEAN :
        IF ok
        THEN /\ dframe' = [dframe EXCEPT !.i = 1]
             /\ dpc' = "d_loop"
        ELSE /\ dframe' = [dframe EXCEPT !.ret = "E_mac"]
             /\ dpc' = "d_done"
    /\ UNCHANGED <<dinput, contacted, dstdout, hdVars, allocVars, multiVars>>

\* for _, server := range conf.Servers { ... }
\* return fmt.Errorf("failed to connect dhcp servers")
DhcpLoop ==
    /\ dpc = "d_loop"
    /\ IF dframe.i > Len(dinput.servers)
       THEN /\ dframe' = [dframe EXCEPT !.ret = "E_connect"]
            /\ dpc' = "d_done"
       ELSE /\ dframe' = dframe
            /\ dpc' = "d_request"
    /\ UNCHANGED <<dinput, contacted, dstdout, hdVars, allocVars, multiVars>>

\* err := client.Put(convMacAddr, dhcpReq, dhcpResp) in cmdAdd,
\* err := client.Delete(convMacAddr) in cmdDel.
DhcpRequest ==
    /\ dpc = "d_request"
    /\ contacted' = Append(contacted, dframe.i)
    /\ LET kind == dinput.servers[dframe.i]
           e == IF dinput.cmd = "add" THEN Put(kind, RespArg) ELSE Delete(kind)
       IN  IF e = "panic"
           THEN /\ dframe' = [dframe EXCEPT !.ret = "panic"]
                /\ dpc' = "d_done"
           ELSE /\ dframe' = [dframe EXCEPT !.err = e]
                /\ dpc' = "d_answered"
    /\ UNCHANGED <<dinput, dstdout, hdVars, allocVars, multiVars>>

\* if err == nil { ... return } else { journal.Print(...) }: with no error
\* cmdAdd builds the result from dhcpResp and prints it, cmdDel returns nil;
\* with an error the next server is tried.
DhcpAnswered ==
    /\ dpc = "d_answered"
    /\ IF dframe.err # Nil
       THEN /\ dframe' = [dframe EXCEPT !.i = @ + 1, !.err = Nil]
            /\ dpc' = "d_loop"
            /\ dstdout' = dstdout
       ELSE IF dinput.cmd = "del"
       THEN /\ dframe' = dframe
            /\ dpc' = "d_done"
            /\ dstdout' = dstdout
       ELSE IF ~ParseIPOk(ClientIp(dinput.servers[dframe.i], RespArg))
       THEN /\ dframe' = [dframe EXCEPT !.ret = "E_invalid_ip"]
            /\ dpc' = "d_done"
            /\ dstdout' = dstdout
       ELSE /\ dframe' = dframe
            /\ dpc' = "d_done"
            /\ dstdout' = Append(dstdout, dframe.i)
    /\ UNCHANGED <<dinput, contacted, hdVars, allocVars, multiVars>>

DhcpNext ==
    \/ DhcpLoadConf \/ DhcpMacAddr \/ DhcpLoop \/ DhcpRequest \/ DhcpAnswered

SpecDhcp == DhcpInit /\ [][DhcpNext]_vars

\* ================================================================ claims
HasEvent(op) == \E i \in DOMAIN trace : trace[i].op = op
AddDone == pc = "done" /\ frame.cmd = "add"
DelDone == pc = "done" /\ frame.cmd = "del"
InHostAs(l, n) == links[l].ns = "host" /\ links[l].name = n

\* C1: when Add has moved the link into the container and ExecAdd then
\* fails (nothing else failing), Add returns with the link back in the host
\* namespace under its pre-attach name.
C1_RollbackRestoresLink ==
    (AddDone /\ frame.failedAt = "ExecAdd" /\ frame.faults = 1)
        => InHostAs(frame.hostDev, frame.hostName)

\* C2: every Add that fails after ExecAdd succeeded (result conversion, no
\* IP configuration, address application, version conversion) has called
\* ExecDel by the time it returns.
LateFailures == {"NewResultFromResult", "len(result.IPs)", "ConfigureIface", "GetAsVersion"}
C2_ExecDelOnLateFailure ==
    (AddDone /\ frame.failedAt \in LateFailures)
        => (frame.ret # Nil /\ HasEvent("ExecDel"))

\* C3: a successful attach followed by a detach called from the host
\* namespace with the same interface name: the detach succeeds unless the
\* environment fails one of its calls, and when it succeeds the link is in
\* the host namespace under the name it had before the attach.
C3_RoundTrip ==
    (pc = "del_moved" /\ frame.rt.link # NoLink)
        => /\ frame.faults = 0 => frame.outErr = Nil
           /\ frame.outErr = Nil => InHostAs(frame.rt.link, frame.rt.orig)

C3_Witness ==
    /\ pc = "del_moved"
    /\ frame.rt.link # NoLink
    /\ frame.rt.orig # frame.ifName
    /\ frame.outErr = Nil
    /\ InHostAs(frame.rt.link, frame.rt.orig)

\* C4: an Add whose attach fails after the namespace move (re-resolving the
\* link, setting its alias or renaming it) has attempted a detach by the
\* time it returns.
AfterMoveFailures == {"in_byName", "in_setAlias", "in_setName"}
C4_CompensatingDetach ==
    (AddDone /\ frame.failedAt \in AfterMoveFailures) => HasEvent("moveLinkOut")

\* C5: in Del every detach step comes after a successful ExecDel, and a Del
\* whose ExecDel failed returns that error having made no other call and
\* having left every link as it was.
DetachOps == {"moveLinkOut", "LinkByName", "LinkSetDown", "LinkSetName", "LinkSetNsFd"}
C5_DelReleasesFirst ==
    frame.cmd = "del" =>
        /\ \A i \in DOMAIN trace :
              trace[i].op \in DetachOps
                  => \E j \in 1..(i - 1) : trace[j] = Event("ExecDel", TRUE)
        /\ (~\E j \in DOMAIN trace : trace[j] = Event("ExecDel", TRUE)) => links = links0
        /\ (pc = "done" /\ frame.failedAt = "ExecDel")
              => /\ frame.ret = "E_ipam"
                 /\ trace = <<Event("ExecDel", FALSE)>>
                 /\ links = links0

C5_Witness ==
    /\ DelDone
    /\ frame.failedAt = "ExecDel"
    /\ \E l \in Links : /\ links[l].ns = "cont"
                        /\ links[l].name = frame.ifName
                        /\ links[l].alias # ""
                        /\ links[l].up

MoveIssuedDown ==
    /\ pc = "in_setNs"
          => /\ ~links[frame.hostDev].up
             /\ trace[Len(trace)] = Event("LinkSetDown", TRUE)
    /\ pc = "out_setNs"
          => /\ ~links[frame.dev].up
             /\ trace[Len(trace) - 1] = Event("LinkSetDown", TRUE)
             /\ trace[Len(trace)] = Event("LinkSetName", TRUE)
C7_DownWhenMoved ==
    /\ []MoveIssuedDown
    /\ [][\A l \in Links : links'[l].ns # links[l].ns => ~links[l].up]_vars

C7_Witness ==
    /\ pc = "out_doExit"
    /\ frame.outErr = Nil
    /\ links0[frame.dev].up
    /\ links0[frame.dev].ns = "cont"
    /\ links[frame.dev].ns = "host"

\* C8: the names one allocator has handed out are pairwise distinct, and
\* two allocators on the same base name agree on every call both have made.
C8_NamesDistinct ==
    /\ \A a \in Allocators : \A j, k \in DOMAIN produced[a] :
          j # k => produced[a][j].iface # produced[a][k].iface
    /\ \A a, b \in Allocators : \A k \in DOMAIN produced[a] \cap DOMAIN produced[b] :
          produced[a][k] = produced[b][k]

\* The digits that follow the first n characters of s, read as a number
\* (-1 when they are not a run of digits).
NumberAfter(s, n) ==
    LET t == SubSeq(s, n + 1, Len(s)) IN
    IF t # <<>> /\ \A i \in 1..Len(t) : IsDigit(t[i]) THEN DecimalValue(t) ELSE -1

\* C9: the first call returns the base name, marked primary; the k-th call
\* (k >= 2) is not primary and returns the allocator's prefix, itself a
\* prefix of the base name, followed by the number k - 1, one more than the
\* call before; two allocators on one base name return the same sequence.
C9_Sequence ==
    /\ \A a \in Allocators : \A k \in DOMAIN produced[a] :
          LET r == produced[a][k]
              p == podif[a].prefix
          IN  IF k = 1
              THEN r.iface = ifname /\ r.isDefault
              ELSE /\ ~r.isDefault
                   /\ Len(p) <= Len(ifname) /\ SubSeq(ifname, 1, Len(p)) = p
                   /\ Len(r.iface) > Len(p) /\ SubSeq(r.iface, 1, Len(p)) = p
                   /\ NumberAfter(r.iface, Len(p)) = k - 1
    /\ \A a, b \in Allocators : \A k \in DOMAIN produced[a] \cap DOMAIN produced[b] :
          produced[a][k] = produced[b][k]

C9_Witness ==
    /\ ifname = <<"e", "t", "h", "0">>
    /\ produced[1] = << [iface |-> <<"e", "t", "h", "0">>, isDefault |-> TRUE],
                        [iface |-> <<"e", "t", "h", "1">>, isDefault |-> FALSE],
                        [iface |-> <<"e", "t", "h", "2">>, isDefault |-> FALSE] >>
    /\ produced[2] = produced[1]

\* C10: an Add that returns success has invoked exactly one delegate marked
\* primary and printed exactly one result, that delegate's.
InvokedBy(c) == SelectSeq(invoked, LAMBDA r : r.cmd = c)
PrimaryOf(c) == SelectSeq(invoked, LAMBDA r : r.cmd = c /\ r.isDefault)
C10_OnePrimaryResult ==
    (mpc = "m_done" /\ mframe.cmd = "add" /\ mframe.ret = Nil)
        => /\ Len(PrimaryOf("add")) = 1
           /\ Len(stdout) = 1
           /\ stdout[1].plugin = PrimaryOf("add")[1].plugin

\* The pod's plugin list (empty unless the annotation was found and parsed).
DynList == minput.k8s.list
NameOf(r) == minput.Plugins[r.plugin].name
AddReturned(e) == Len(ran) >= 1 /\ ran[1].cmd = "add" /\ ran[1].ret = e

\* C11: with a non-empty pod plugin list, Add invokes the delegates in the
\* order of that list, prints at most one result, that of the first name of
\* the list, and a successful Add has invoked the whole list and printed.
C11_DynamicOrder ==
    Len(DynList) > 0 =>
        /\ Len(InvokedBy("add")) <= Len(DynList)
        /\ \A k \in DOMAIN InvokedBy("add") : NameOf(InvokedBy("add")[k]) = DynList[k]
        /\ Len(stdout) <= 1
        /\ \A k \in DOMAIN stdout : NameOf(stdout[k]) = DynList[1]
        /\ AddReturned(Nil) => Len(InvokedBy("add")) = Len(DynList) /\ Len(stdout) = 1

C11_Witness ==
    /\ AddReturned(Nil)
    /\ DynList = <<"B", "A">>
    /\ minput.Default = "A"
    /\ Len(stdout) = 1 /\ NameOf(stdout[1]) = "B"
    /\ Len(InvokedBy("add")) = 2
    /\ NameOf(InvokedBy("add")[1]) = "B" /\ NameOf(InvokedBy("add")[2]) = "A"

\* C12: with an empty or absent pod plugin list, Add invokes no delegate
\* but the configured default, and an Add that returns success has invoked
\* exactly that one and printed its result.
C12_DefaultOnly ==
    (Len(DynList) = 0 /\ minput.k8s.st # "badjson") =>
        /\ \A k \in DOMAIN InvokedBy("add") :
              k = 1 /\ NameOf(InvokedBy("add")[k]) = minput.Default
        /\ AddReturned(Nil) =>
              /\ Len(InvokedBy("add")) = 1
              /\ Len(stdout) = 1
              /\ NameOf(stdout[1]) = minput.Default

\* C13: a Del that follows a fully successful Add on the same input invokes
\* the delegates the Add invoked, in the same order and with the same
\* interface names; a Del that returns success has invoked all of them.
SameCall(r, q) == r.plugin = q.plugin /\ r.type = q.type /\ r.ifname = q.ifname
C13_DelMirrorsAdd ==
    (Len(ran) = 2 /\ AddReturned(Nil)) =>
        /\ Len(InvokedBy("del")) <= Len(InvokedBy("add"))
        /\ \A k \in DOMAIN InvokedBy("del") :
              SameCall(InvokedBy("del")[k], InvokedBy("add")[k])
        /\ ran[2].ret = Nil => Len(InvokedBy("del")) = Len(InvokedBy("add"))

C13_Witness ==
    /\ Len(ran) = 2 /\ AddReturned(Nil) /\ ran[2].ret = Nil
    /\ Len(InvokedBy("del")) = 2
    /\ InvokedBy("del")[1].ifname # InvokedBy("del")[2].ifname
    /\ InvokedBy("del")[1].plugin # InvokedBy("del")[2].plugin

\* C14: a command whose lookup of the pod's plugin list failed (no client,
\* no pod, no annotation, an annotation that does not parse) and whose
\* configuration is valid does not return the lookup's failure, and goes on
\* to the configured default plugin.
C14_LookupFailureRecovered ==
    (/\ minput.k8s.st # "ok"
     /\ mpc = "m_done"
     /\ mframe.failedAt \notin {"loadNetConf", "checkPlugin"}) =>
        /\ mframe.failedAt # "parsePodNetworkObject"
        /\ \A k \in DOMAIN InvokedBy(mframe.cmd) :
              NameOf(InvokedBy(mframe.cmd)[k]) = minput.Default
        /\ (\E j \in DOMAIN minput.Plugins : minput.Plugins[j].name = minput.Default)
              => (mframe.failedAt = "Setenv" \/ Len(InvokedBy(mframe.cmd)) = 1)

\* C15: a command whose pod plugin list holds a name that no entry of the
\* static list carries returns an error.
Unmatched ==
    \E i \in DOMAIN DynList :
        \A j \in DOMAIN minput.Plugins : minput.Plugins[j].name # DynList[i]
C15_UnresolvedFatal ==
    (mpc = "m_done" /\ Unmatched) => mframe.ret # Nil

C15_Witness ==
    /\ mpc = "m_done"
    /\ Unmatched
    /\ mframe.failedAt = "find"
    /\ mframe.ret = "E_notfound"
    /\ Len(InvokedBy(mframe.cmd)) = 1

\* C16: a configuration with no default name, no plugin list, or an entry
\* whose name or type is absent, no string or empty, ends the command with
\* a configuration error, with no delegate invoked, no name allocated and
\* the environment's interface name as it was.
BadField(v) == v \in {"", "<nil>", "<num>"}
ConfigInvalid ==
    \/ minput.Default = ""
    \/ Len(minput.Plugins) = 0
    \/ \E j \in DOMAIN minput.Plugins :
          BadField(minput.Plugins[j].name) \/ BadField(minput.Plugins[j].type)
C16_ConfigErrorFirst ==
    ConfigInvalid =>
        /\ invoked = <<>>
        /\ environ = minput.IfName
        /\ mpc \in {"idle", "m_load", "m_check", "m_done"}
        /\ mpc = "m_done" => /\ mframe.ret # Nil
                             /\ mframe.failedAt \in {"loadNetConf", "checkPlugin"}
                             /\ mframe.podifName = NewMFrame(mframe.cmd).podifName

\* The first n names an allocator in state c hands out.
RECURSIVE NamesFrom(_, _, _)
NamesFrom(name, c, n) ==
    IF n = 0 THEN <<>>
    ELSE <<Produce(name, c).iface>> \o NamesFrom(name, Produce(name, c).next, n - 1)

\* C19: the k-th delegate a command invokes finds in CNI_IFNAME the k-th
\* name of the command's allocator, and CNI_IFNAME is written by no step
\* but the one right before a delegate is invoked.
EnvIsAllocated ==
    /\ \A c \in {"add", "del"} : \A k \in DOMAIN InvokedBy(c) :
          InvokedBy(c)[k].ifname = NamesFrom(minput.IfName, getifname(minput.IfName), k)[k]
    /\ mpc = "m_invoke" => environ = mframe.iface
C19_AmbientName ==
    /\ []EnvIsAllocated
    /\ [][environ' # environ => (mpc = "m_podif" /\ mpc' = "m_invoke")]_vars

C19_Witness ==
    /\ mpc = "m_running"
    /\ mframe.cmd = "del"
    /\ Len(InvokedBy("del")) = 2
    /\ InvokedBy("del")[2].ifname = <<"e", "t", "h", "1">>
    /\ minput.IfName = <<"e", "t", "h", "0">>
    /\ environ = <<"e", "t", "h", "1">>

\* C20: in Add, ExecAdd is called only with the link in the container
\* namespace, renamed to the interface name and aliased to its host name,
\* every step of the attach having succeeded; an Add that fails in the link
\* resolution or in the attach (or before) has not called ExecAdd.
BeforeIPAM ==
    {"loadConf", "GetNS", "getLink", "in_setDown", "in_setNs", "in_byName",
     "in_setAlias", "in_setName", "in_byName2"}
AttachOps == {"LinkSetDown", "LinkSetNsFd", "LinkSetAlias", "LinkSetName"}
Attached ==
    /\ frame.hostDev # NoLink
    /\ frame.contDev = frame.hostDev
    /\ links[frame.hostDev].ns = "cont"
    /\ links[frame.hostDev].name = frame.ifName
    /\ links[frame.hostDev].alias = frame.hostName
C20_ExecAddAfterAttach ==
    frame.cmd = "add" =>
        /\ pc = "add_execAdd" => Attached
        /\ \A i \in DOMAIN trace :
              trace[i].op = "ExecAdd" =>
                  /\ \A op \in AttachOps : \E j \in 1..(i - 1) : trace[j] = Event(op, TRUE)
                  /\ \A j \in 1..(i - 1) : trace[j].ok
        /\ (AddDone /\ frame.failedAt \in BeforeIPAM) => ~HasEvent("ExecAdd")

C20_Witness ==
    /\ pc = "add_convert"
    /\ frame.cmd = "add"
    /\ trace[Len(trace)] = Event("ExecAdd", TRUE)
    /\ Attached
    /\ links0[frame.hostDev].ns = "host"
    /\ links0[frame.hostDev].up

\* The live links each kind of selector of the resolved configuration names.
Live == {l \in Links : links[l].ns = curNs}
Range(q) == {q[i] : i \in DOMAIN q}
NameMatches == {l \in Live : links[l].name \in Range(frame.cfg.devices)}
HwMatches ==
    {l \in Live : \E i \in DOMAIN frame.cfg.hwaddrs :
                      ParseMAC(frame.cfg.hwaddrs[i]) = HardwareAddr(l)}
PathMatches == {l \in Live : PciPath(l) \in Range(frame.cfg.kernelpaths)}

\* C17: once the links are listed, getLink returns a link matched by name
\* whenever a name selector matches a live link, whatever the other selectors
\* match; with no name match it returns a link matched by hardware address
\* whenever there is one.
C17_Priority ==
    (pc = "resolved" /\ frame.err # "E_list") =>
        /\ NameMatches # {} => frame.hostDev \in NameMatches
        /\ (NameMatches = {} /\ HwMatches # {}) => frame.hostDev \in HwMatches

C17_Witness ==
    /\ pc = "resolved"
    /\ NameMatches = {1} /\ HwMatches = {2} /\ PathMatches = {3}
    /\ frame.hostDev = 1

\* The orders a list can be given in; HwOnly is a resolution, with the links
\* listed, by hardware-address selectors alone.
Perms(q) ==
    {[i \in DOMAIN q |-> q[f[i]]] :
        f \in {g \in [DOMAIN q -> DOMAIN q] : \A i, j \in DOMAIN q : g[i] = g[j] => i = j}}
HwOnly ==
    /\ pc = "resolved"
    /\ frame.err # "E_list"
    /\ frame.cfg.devices = <<>>
    /\ frame.cfg.kernelpaths = <<>>
    /\ HwMatches # {}

\* C18 as stated: with hardware-address selectors only and a live link
\* matching one of them, every order of the list resolves to the same link.
C18_AnyOrder ==
    HwOnly => \A q \in Perms(frame.cfg.hwaddrs) : getLink(<<>>, q, <<>>) = frame.hostDev

\* C18 as amended: with hardware-address selectors only and exactly one
\* live link carrying a listed address, every order of the list resolves
\* to that link.
C18_AnyOrderOneMatch ==
    (HwOnly /\ Cardinality(HwMatches) = 1) =>
        /\ frame.hostDev \in HwMatches
        /\ \A q \in Perms(frame.cfg.hwaddrs) : getLink(<<>>, q, <<>>) = frame.hostDev

C18_Witness ==
    /\ HwOnly
    /\ frame.cfg.hwaddrs = <<"zz", "aa:00:00:00:00:02">>
    /\ HwMatches = {2}
    /\ frame.hostDev = 2

\* The positions at which the command runs inside a containerNs.Do.
InsideDo ==
    {"in_byName", "in_setAlias", "in_setName", "in_byName2", "in_doExit",
     "out_getCur", "out_do", "out_byName", "out_setDown", "out_setName", "out_setNs",
     "out_doExit", "rb_doExit", "add_configure", "cfg_doExit"}

\* C21: a command that has returned is in the namespace it started in, with
\* no switch left open; the thread is in the container's namespace only
\* between the entry and the exit of a containerNs.Do, and the steps of
\* attach and detach that address the container's links run there.
C21_NamespaceRestored ==
    /\ pc \in {"idle", "ret", "df_execDel", "done"} => (curNs = "host" /\ nsStack = <<>>)
    /\ curNs = "cont" => (nsStack # <<>> /\ pc \in InsideDo)
    /\ pc \in {"in_byName", "in_setAlias", "in_setName", "in_byName2",
               "out_byName", "out_setDown", "out_setName", "out_setNs", "add_configure"}
          => (curNs = "cont" /\ nsStack # <<>>)

C21_Witness ==
    /\ AddDone
    /\ frame.outRet = "rollback"
    /\ frame.outErr # Nil
    /\ HasEvent("moveLinkOut")
    /\ curNs = "host" /\ nsStack = <<>>

C24_AttachPost ==
    (pc = "add_moved" /\ frame.err = Nil) =>
        /\ links[frame.hostDev].ns = "cont"
        /\ links[frame.hostDev].name = frame.ifName
        /\ links[frame.hostDev].alias = links0[frame.hostDev].name
        /\ links0[frame.hostDev].ns = "host"
        /\ frame.contDev = ByName("cont", frame.ifName)
        /\ frame.contDev = frame.hostDev

C24_Witness ==
    /\ pc = "add_moved"
    /\ frame.err = Nil
    /\ links0[frame.hostDev].name = "ens2"
    /\ links[frame.hostDev].alias = "ens2"
    /\ links[frame.hostDev].name = "eth0"
    /\ frame.contDev = frame.hostDev

\* C25: an Add whose LinkSetDown in the host failed returns an error having
\* made no other call, ExecAdd included, and with every link as it was.
C25_SetDownFailure ==
    (AddDone /\ frame.failedAt = "in_setDown") =>
        /\ frame.ret # Nil
        /\ links = links0
        /\ trace = <<Event("LinkSetDown", FALSE)>>
        /\ ~HasEvent("ExecAdd")

C25_Witness ==
    /\ AddDone
    /\ frame.failedAt = "in_setDown"
    /\ frame.ret = "E_move"
    /\ links[frame.hostDev].up
    /\ links[frame.hostDev].ns = "host"

\* The name without its trailing run of digits.
RECURSIVE StripDigits(_)
StripDigits(q) ==
    IF q # <<>> /\ IsDigit(q[Len(q)]) THEN StripDigits(SubSeq(q, 1, Len(q) - 1)) ELSE q
EndsInDigit(q) == q # <<>> /\ IsDigit(q[Len(q)])

\* C26: the allocator's prefix is the base name without its trailing run
\* of digits; for a base name that does not end in a digit the prefix is the
\* base name and the n-th call (n >= 2) returns the base name followed by
\* n - 1.
C26_PrefixShape ==
    \A a \in Allocators :
        /\ podif[a].prefix = StripDigits(ifname)
        /\ ~EndsInDigit(ifname) =>
              \A k \in DOMAIN produced[a] :
                  k >= 2 => produced[a][k].iface = ifname \o Itoa(k - 1)

\* C22: at most one delegate is running at any time; one is started only
\* when none is running, and CNI_IFNAME is not written while one runs.
C22_Serialized ==
    /\ [](inflight <= 1 /\ (inflight = 1 <=> mpc = "m_running"))
    /\ [][inflight' > inflight => inflight = 0]_vars
    /\ [][inflight > 0 => environ' = environ]_vars

C22_Witness ==
    /\ inflight = 1
    /\ Len(InvokedBy(mframe.cmd)) = 2
    /\ InvokedBy(mframe.cmd)[1].ifname # InvokedBy(mframe.cmd)[2].ifname
    /\ environ = InvokedBy(mframe.cmd)[2].ifname

\* C27: an Add that returns an error has written no result document.
C27_NoResultOnError ==
    (mpc = "m_done" /\ mframe.cmd = "add" /\ mframe.ret # Nil) => stdout = <<>>

\* C28: an Add that the k-th delegate failed, or whose k-th pod plugin name
\* is not in the static list, returns that error with the delegates up to k
\* (up to k - 1 for a name not found) invoked, none after it, and no Del of
\* any delegate; once the error is there the Add invokes nothing more.
AddStopped ==
    (mpc = "m_done" /\ mframe.cmd = "add") =>
        /\ mframe.failedAt = "invoke" =>
              /\ mframe.ret = "E_delegate"
              /\ Len(InvokedBy("add")) = mframe.i
              /\ InvokedBy("add")[mframe.i].plugin = mframe.plugin
        /\ mframe.failedAt = "find" =>
              /\ mframe.ret = "E_notfound"
              /\ Len(InvokedBy("add")) = mframe.i - 1
        /\ InvokedBy("del") = <<>>
C28_AddStopsAtFailure ==
    /\ []AddStopped
    /\ [][(mframe.cmd = "add" /\ mframe.ret # Nil /\ mframe'.cmd = "add")
             => invoked' = invoked]_vars

C28_Witness ==
    /\ mpc = "m_done"
    /\ mframe.cmd = "add"
    /\ mframe.failedAt = "invoke"
    /\ mframe.i = 2
    /\ Len(DynList) = 2
    /\ Len(InvokedBy("add")) = 2
    /\ Len(stdout) = 1

\* C29: a Del that one delegate failed returns that error with the
\* delegates up to that one invoked and none of the later ones; once the
\* error is there the Del invokes nothing more.
DelStopped ==
    (mpc = "m_done" /\ mframe.cmd = "del" /\ mframe.failedAt = "invoke") =>
        /\ mframe.ret = "E_delegate"
        /\ Len(InvokedBy("del")) = mframe.i
        /\ InvokedBy("del")[mframe.i].plugin = mframe.plugin
C29_DelStopsAtFailure ==
    /\ []DelStopped
    /\ [][(mframe.cmd = "del" /\ mframe.ret # Nil) => invoked' = invoked]_vars

C29_Witness ==
    /\ mpc = "m_done"
    /\ mframe.cmd = "del"
    /\ mframe.failedAt = "invoke"
    /\ mframe.i = 1
    /\ Len(DynList) = 2
    /\ Len(InvokedBy("del")) = 1

\* C30: getLink reports that no link was found exactly when the links were
\* listed and no name selector, no hardware-address selector and no kernel
\* path names a live link; a kernel path that is not absolute or not under
\* /sys/devices/ does not keep a later one from being tried.
C30_NotFoundOnlyWhenNone ==
    pc = "resolved" =>
        /\ frame.err = "E_notfound"
              <=> (/\ frame.faults = 0
                   /\ NameMatches = {} /\ HwMatches = {} /\ PathMatches = {})
        /\ frame.err # Nil <=> frame.hostDev = NoLink
        /\ (/\ frame.faults = 0
            /\ NameMatches = {} /\ HwMatches = {} /\ PathMatches # {})
              => frame.hostDev \in PathMatches

C30_Witness ==
    /\ pc = "resolved"
    /\ Len(frame.cfg.kernelpaths) = 2
    /\ ~IsAbs(frame.cfg.kernelpaths[1])
    /\ frame.cfg.kernelpaths[2] = PciPath(3)
    /\ NameMatches = {} /\ HwMatches = {}
    /\ frame.hostDev = 3

\* A command given a configuration with no device name, no hardware address
\* and no kernel path.
NoSelector ==
    /\ frame.cmd \in {"add", "del"}
    /\ frame.cfg.devices = <<>>
    /\ frame.cfg.hwaddrs = <<>>
    /\ frame.cfg.kernelpaths = <<>>

\* C31: an Add or Del whose configuration names no device, no hardware
\* address and no kernel path goes from loadConf straight to its return with
\* the configuration error: it never reaches ns.GetNS or any later call, no
\* call is made, and no step of it changes a link, the IPAM lease or the
\* thread's namespace.
C31_NoSelectorRejected ==
    /\ [](NoSelector =>
            /\ pc \in {"add_loadConf", "del_loadConf", "ret", "done"}
            /\ trace = <<>>
            /\ frame.defers = <<>>
            /\ pc \in {"ret", "done"}
                  => frame.ret = "E_conf" /\ frame.failedAt = "loadConf")
    /\ [][(NoSelector /\ NoSelector')
            => /\ links' = links
               /\ lease' = lease
               /\ curNs' = curNs
               /\ nsStack' = nsStack]_vars

C31_Witness ==
    /\ DelDone
    /\ NoSelector
    /\ frame.ret = "E_conf"
    /\ lease
    /\ \E l \in Links : links[l].ns = "cont" /\ links[l].name = frame.ifName

\* The deferred compensations of the running Add that have been issued.
Released == \E i \in DOMAIN trace : trace[i].op = "ExecDel"
Detached == \E i \in DOMAIN trace : trace[i].op = "moveLinkOut"

\* C32: in an Add the deferred detach is issued only after the deferred
\* ExecDel when ExecAdd had succeeded; an Add that ran both returns the error
\* of the step that failed, whatever the two compensations returned; and
\* once cmdAdd has chosen its return value no later step changes it.
C32_ReverseOrder ==
    /\ [](frame.cmd = "add" =>
            /\ \A i \in DOMAIN trace :
                  (trace[i].op = "moveLinkOut"
                       /\ \E k \in DOMAIN trace : trace[k] = Event("ExecAdd", TRUE))
                      => \E j \in 1..(i - 1) : trace[j].op = "ExecDel"
            /\ (pc = "done" /\ Released /\ Detached)
                  => /\ frame.ret = frame.err
                     /\ frame.ret \in {"E_convert", "E_configure", "E_version"}
                     /\ frame.failedAt \in LateFailures)
    /\ [][(frame.cmd = "add" /\ frame.ret # Nil /\ frame'.cmd = "add")
            => frame'.ret = frame.ret /\ frame'.err = frame.err]_vars

C32_Witness ==
    /\ AddDone
    /\ frame.ret = "E_configure"
    /\ \E i, j \in DOMAIN trace :
          /\ i < j
          /\ trace[i] = Event("ExecDel", FALSE)
          /\ trace[j].op = "moveLinkOut"
    /\ frame.outErr # Nil

\* C33: a Del that returns the error of its detach has released the
\* address first and has not allocated one again; no link has left the
\* container's namespace, and the link the detach resolved is still there.
C33_DelDetachFailure ==
    (DelDone /\ frame.outErr # Nil) =>
        /\ frame.ret = frame.outErr
        /\ trace[1] = Event("ExecDel", TRUE)
        /\ ~HasEvent("ExecAdd")
        /\ ~lease
        /\ \A l \in Links : links0[l].ns = "cont" => links[l].ns = "cont"
        /\ frame.dev # NoLink => links[frame.dev].ns = "cont"

C33_Witness ==
    /\ DelDone
    /\ frame.ret = "E_setns"
    /\ frame.outAt = "out_setNs"
    /\ links[frame.dev].ns = "cont"
    /\ links[frame.dev].name = frame.devAlias

\* C34: when a detach succeeds on a link a successful attach had moved in
\* (the detach of a later Del, or the deferred one of the same Add), the
\* link is down and its alias is the name it had before the attach.
C34_DownAndAliased ==
    /\ (pc = "del_moved" /\ frame.rt.link # NoLink /\ frame.outErr = Nil)
          => /\ ~links[frame.rt.link].up
             /\ links[frame.rt.link].alias = frame.rt.orig
    /\ (pc = "rb_doExit" /\ frame.outRet = "rollback" /\ frame.outErr = Nil)
          => /\ frame.dev = frame.hostDev
             /\ ~links[frame.hostDev].up
             /\ links[frame.hostDev].alias = frame.hostName

C34_Witness ==
    /\ pc = "rb_doExit"
    /\ frame.outRet = "rollback"
    /\ frame.outErr = Nil
    /\ links0[frame.hostDev].up
    /\ links0[frame.hostDev].alias = ""
    /\ HasEvent("ConfigureIface")
    /\ ~links[frame.hostDev].up
    /\ links[frame.hostDev].alias = frame.hostName

\* The first configured server that answers a request with 200 and a
\* document (0: there is none).
FirstAnswering ==
    IF \E i \in DOMAIN dinput.servers : dinput.servers[i] = "ok"
    THEN CHOOSE i \in DOMAIN dinput.servers :
             /\ dinput.servers[i] = "ok"
             /\ \A j \in 1..(i - 1) : dinput.servers[j] # "ok"
    ELSE 0

\* An Add that got as far as the servers and has returned.
DhcpAddReturned ==
    /\ dpc = "d_done"
    /\ dinput.cmd = "add"
    /\ dframe.ret \notin {"E_conf", "E_mac"}

\* C35: an Add contacts the servers in list order up to the first one that
\* answers, prints that server's answer and returns success; when no server
\* answers it has contacted every server and returns the connection error.
C35_FirstAnswerWins ==
    DhcpAddReturned =>
        IF FirstAnswering # 0
        THEN /\ contacted = [i \in 1..FirstAnswering |-> i]
             /\ dstdout = <<FirstAnswering>>
             /\ dframe.ret = Nil
        ELSE /\ contacted = [i \in 1..Len(dinput.servers) |-> i]
             /\ dstdout = <<>>
             /\ dframe.ret = "E_connect"

====
